---- MODULE Spec2Model ----
(***************************************************************************)
(* Model of the open-observe tracing layer: the attribute enrichment       *)
(* record (otel/trace_data.go), the span helper StartSpan, the Echo        *)
(* middleware OtelMiddleware and the traced MongoDB Collection wrapper.    *)
(*                                                                         *)
(* A span is the OpenTelemetry trace.Span the code writes to.  Its         *)
(* operations follow the contract of that interface: SetStatus keeps the   *)
(* higher of the old and the new code (Ok > Error > Unset) and keeps a     *)
(* description only for Error; SetAttributes overrides per key;            *)
(* RecordError(nil) does nothing; nothing is recorded after End.           *)
(***************************************************************************)
EXTENDS Integers, Sequences, FiniteSets, TLC

VARIABLES
    spans,      \* every span the tracer has started, in order of creation
    nCalls,     \* invocations begun so far, per kind (request, StartSpan, Collection)
    uuidCount,  \* number of identifiers uuid.New() has produced
    pc,         \* per request: position of the middleware pass
    inp,        \* per request: the inbound request
    mw,         \* per request: the middleware's locals (requestID, traceData, span)
    kv,         \* per request: echo.Context key/value store (c.Set / c.Get)
    resp,       \* per request: the response (header, status, size, content type)
    stack,      \* per request: calls in flight below the handler
    out,        \* per request: values returned by the handler and the middleware
    eSpan,      \* enrichment: the span under enrichment
    ePre,       \* enrichment: that span before the last call
    eData,      \* enrichment: the record of the last call
    eOp,        \* enrichment: the last call made
    eErr,       \* enrichment: the error given to the last TraceError
    eCalls      \* enrichment: number of calls made

pipeVars == <<spans, nCalls, uuidCount, pc, inp, mw, kv, resp, stack, out>>
enrichVars == <<eSpan, ePre, eData, eOp, eErr, eCalls>>
vars == <<spans, nCalls, uuidCount, pc, inp, mw, kv, resp, stack, out,
          eSpan, ePre, eData, eOp, eErr, eCalls>>

----------------------------------------------------------------------------
(* Bounds *)

MaxSpans == 3
MaxFailures == 1
MaxEnrichCalls == 2
MaxTime == 2

\* the requests in flight through the one middleware instance, and the one
\* followed through handler, StartSpan and Collection calls
Requests == {"r1", "r2"}
Followed == {"r1"}

----------------------------------------------------------------------------
(* Values *)

NilErr == "nil"
ErrValues == {"errA", "errB"}

\* err.Error()
ErrorMsg(e) ==
    CASE e = "errA" -> "bind failed"
      [] e = "errB" -> "store down"
      [] OTHER -> e

\* time.Time: 0 is the zero Time, time.Now() is never zero
ZeroTime == 0
Times == 1..MaxTime

IsZero(t) == t = ZeroTime

\* t.Format(time.RFC3339)
FormatRFC3339(t) ==
    CASE t = 0 -> "0001-01-01T00:00:00Z"
      [] t = 1 -> "2025-01-01T00:00:01Z"
      [] t = 2 -> "2025-01-01T00:00:02Z"
      [] OTHER -> "2025-01-01T00:00:03Z"

StatusOK == 200

\* codes.Code, ordered Unset < Error < Ok
CodeRank(c) == CASE c = "Unset" -> 0 [] c = "Error" -> 1 [] c = "Ok" -> 2

NoStatus == [code |-> "Unset", description |-> ""]

NoAttrs == [k \in {} |-> ""]

----------------------------------------------------------------------------
(* trace.Span *)

\* tracer.Start(ctx, name, trace.WithAttributes(...)): parent is the span of ctx.
\* With the span is kept the record of the invocation that started it: its
\* kind and operation, the number of End calls (ended), of writes made after
\* End (late) and of Failed hooks run on it (hookFails), the value its inner
\* work or store call produced (inner) and the value it returned (ret).
NewSpan(name, parent, remote, attrs, kind, op) ==
    [name |-> name, parent |-> parent, remote |-> remote,
     attrs |-> attrs, status |-> NoStatus, events |-> <<>>,
     kind |-> kind, op |-> op, ended |-> 0, late |-> 0, hookFails |-> 0,
     inner |-> "pending", ret |-> "pending"]

IsRecording(s) == s.ended = 0

Late(s) == [s EXCEPT !.late = @ + 1]

SetAttributes(s, kvs) ==
    IF ~IsRecording(s) THEN Late(s)
    ELSE [s EXCEPT !.attrs = kvs @@ @]

SetStatus(s, code, description) ==
    IF ~IsRecording(s) THEN Late(s)
    ELSE IF CodeRank(s.status.code) > CodeRank(code) THEN s
    ELSE [s EXCEPT !.status =
            [code |-> code,
             description |-> IF code = "Error" THEN description ELSE ""]]

RecordError(s, err) ==
    IF err = NilErr THEN s
    ELSE IF ~IsRecording(s) THEN Late(s)
    ELSE [s EXCEPT !.events = Append(@, err)]

End(s) == [s EXCEPT !.ended = @ + 1]

----------------------------------------------------------------------------
(* otel/trace_data.go *)

EmptyTraceData ==
    [UserID |-> "", RequestID |-> "", ServiceName |-> "", Environment |-> "",
     Version |-> "", Region |-> "", Action |-> "", Resource |-> "",
     StatusCode |-> 0, Error |-> NilErr, ClientIP |-> "", UserAgent |-> "",
     RequestSize |-> 0, ResponseSize |-> 0, Duration |-> 0,
     StartTime |-> ZeroTime, EndTime |-> ZeroTime]

NewTraceData(now) ==
    [EmptyTraceData EXCEPT
        !.Environment = "development", !.Version = "1.0.0",
        !.ServiceName = "echo-server", !.Region = "local", !.StartTime = now]

\* the attribute list AddTraceAttributes builds before committing it
TraceAttributes(data) ==
    LET fixed ==
            ("user.id" :> data.UserID) @@
            ("request.id" :> data.RequestID) @@
            ("service.name" :> data.ServiceName) @@
            ("environment" :> data.Environment) @@
            ("version" :> data.Version) @@
            ("region" :> data.Region) @@
            ("action" :> data.Action) @@
            ("resource" :> data.Resource) @@
            ("status.code" :> data.StatusCode) @@
            ("client.ip" :> data.ClientIP) @@
            ("user.agent" :> data.UserAgent) @@
            ("request.size" :> data.RequestSize) @@
            ("response.size" :> data.ResponseSize) @@
            ("duration.ms" :> data.Duration)
        start == IF ~IsZero(data.StartTime)
                 THEN ("start_time" :> FormatRFC3339(data.StartTime)) ELSE NoAttrs
        end == IF ~IsZero(data.EndTime)
               THEN ("end_time" :> FormatRFC3339(data.EndTime)) ELSE NoAttrs
        errm == IF data.Error # NilErr
                THEN ("error.message" :> ErrorMsg(data.Error)) ELSE NoAttrs
    IN errm @@ end @@ start @@ fixed

\* ClassifyStatus with the error message of the record ignored
ClassifyStatus_NoErrMsg(span, data) ==
    IF data.StatusCode # 0
    THEN IF data.StatusCode = StatusOK
         THEN SetStatus(span, "Ok", "Success")
         ELSE SetStatus(span, "Error", "Unknown error")
    ELSE span

\* ClassifyStatus classifying on the error alone when the status code is 0
ClassifyStatus_ErrAlone(span, data) ==
    IF data.StatusCode # 0
    THEN IF data.StatusCode = StatusOK
         THEN SetStatus(span, "Ok", "Success")
         ELSE IF data.Error # NilErr
              THEN SetStatus(span, "Error", ErrorMsg(data.Error))
              ELSE SetStatus(span, "Error", "Unknown error")
    ELSE IF data.Error # NilErr
         THEN SetStatus(span, "Error", ErrorMsg(data.Error))
         ELSE span

\* ClassifyStatus taking every 2xx status code as success
ClassifyStatus_2xxOk(span, data) ==
    IF data.StatusCode # 0
    THEN IF data.StatusCode >= 200 /\ data.StatusCode < 300
         THEN SetStatus(span, "Ok", "Success")
         ELSE IF data.Error # NilErr
              THEN SetStatus(span, "Error", ErrorMsg(data.Error))
              ELSE SetStatus(span, "Error", "Unknown error")
    ELSE span

\* the status classification of AddTraceAttributes
ClassifyStatus(span, data) ==
    IF data.StatusCode # 0
    THEN IF data.StatusCode = StatusOK
         THEN SetStatus(span, "Ok", "Success")
         ELSE IF data.Error # NilErr
              THEN SetStatus(span, "Error", ErrorMsg(data.Error))
              ELSE SetStatus(span, "Error", "Unknown error")
    ELSE span

AddTraceAttributes(span, data) ==
    SetAttributes(ClassifyStatus(span, data), TraceAttributes(data))

TraceError(span, err, now) ==
    LET s1 == AddTraceAttributes(span,
                [EmptyTraceData EXCEPT !.StatusCode = 400, !.Error = err, !.EndTime = now])
        s2 == RecordError(s1, err)
    IN SetStatus(s2, "Error", ErrorMsg(err))

TraceSuccess(span, now) ==
    LET s1 == AddTraceAttributes(span,
                [EmptyTraceData EXCEPT !.StatusCode = 200, !.EndTime = now])
    IN SetStatus(s1, "Ok", "Success")

----------------------------------------------------------------------------
(* Inbound requests and the Echo context *)

\* The inbound requests: method, matched route pattern c.Path() ("" when the
\* router matched none), raw URL path, X-Request-ID header ("" when absent)
\* and traceparent header (absent, valid or invalid).
InboundRequests ==
    { [method |-> "GET", path |-> "/users/:id", urlPath |-> "/users/42",
       reqID |-> "", traceparent |-> ""],
      [method |-> "POST", path |-> "/users", urlPath |-> "/users",
       reqID |-> "abc-123", traceparent |-> "valid"],
      [method |-> "GET", path |-> "", urlPath |-> "/nope",
       reqID |-> "abc-123", traceparent |-> "garbage"] }

StartTimes == {1}

\* uuid.New().String(): the n-th identifier generated
UUID(n) ==
    CASE n = 1 -> "uuid-1"
      [] n = 2 -> "uuid-2"
      [] OTHER -> "uuid-3"

ConfigServiceName == "echo-v4-server-demo-tracer"
ConfigEnvironment == "development"

NoInput == [method |-> "", path |-> "", urlPath |-> "", reqID |-> "", traceparent |-> ""]

NoLocals == [route |-> "", requestID |-> "", spanName |-> "",
             traceData |-> EmptyTraceData, span |-> 0]

NoCarrier == [set |-> FALSE, Tracer |-> "", RequestCtx |-> 0]

\* a context is identified by the span it carries (0: none)
NoEcho == [reqCtx |-> 0, carrier |-> NoCarrier]

NoResponse == [reqID |-> "", status |-> 0, size |-> 0, ctype |-> ""]

\* TraceContext{Tracer: tracer, RequestCtx: ctx} handing on a context held
\* from before tracer.Start
NewCarrier_StaleCtx(tracer, ctx) == [set |-> TRUE, Tracer |-> tracer, RequestCtx |-> 0]

\* one TraceContext built for the first request and handed to every request
NewCarrier_Reused(tracer, ctx) == [set |-> TRUE, Tracer |-> tracer, RequestCtx |-> 1]

\* TraceContext{Tracer: tracer, RequestCtx: ctx}, built per request
NewCarrier(tracer, ctx) == [set |-> TRUE, Tracer |-> tracer, RequestCtx |-> ctx]

\* propagator.Extract: a valid traceparent yields a remote parent, anything
\* else leaves the context without a span
Extract(traceparent) == traceparent = "valid"

\* tracer.Start appends the new span to the tracer's spans
TracerStart(ss, span) == Append(ss, span)

----------------------------------------------------------------------------
(* Calls in flight below the handler *)
\* A frame is a body of code in flight: the handler (its span is the request
\* span, the span of c.Request().Context()), the work of a StartSpan, or a
\* store call of a Collection operation.  As in the example handlers, a body
\* makes at most one store call.
Frame(kind, span, op) ==
    [kind |-> kind, span |-> span, op |-> op,
     cmd |-> "idle", lastFailed |-> FALSE,
     wrote |-> FALSE, stored |-> FALSE]

Top(r) == stack[r][Len(stack[r])]

Pop(st) == SubSeq(st, 1, Len(st) - 1)

Push(st, f) == Append(st, f)

\* application code is running: the handler itself or the work of a StartSpan
InAppCode(r) ==
    /\ pc[r] = "handler"
    /\ Top(r).kind \in {"handler", "StartSpan"}

InWork(r) ==
    /\ pc[r] = "handler"
    /\ Top(r).kind = "StartSpan"

InStoreCall(r) ==
    /\ pc[r] = "handler"
    /\ Top(r).kind = "Collection"

\* the record of a finished invocation kept with its span
Finished(s, inner, ret) == [s EXCEPT !.inner = inner, !.ret = ret]

----------------------------------------------------------------------------
(* StartSpan *)

Operations == {"CreateUser"}

WorkErrs == {"errA"}

\* time.Now() inside work
WorkTimes == {2}

\* StartSpan dropping the value work returned
StartSpanReturn_Swallow(workRet) == NilErr

\* return fn(ctx, span)
StartSpanReturn(workRet) == workRet

\* StartSpan classifying the span from work's result before ending it
StartSpanEnd_Classify(span, workRet) ==
    IF workRet # NilErr
    THEN End(RecordError(SetStatus(span, "Error", ErrorMsg(workRet)), workRet))
    ELSE End(SetStatus(span, "Ok", ""))

\* the deferred span.End() of StartSpan: nothing else is done to the span
StartSpanEnd(span, workRet) == End(span)

\* tracer.Start under the carrier's context, then fn is running
CallStartSpan(r) ==
    /\ InAppCode(r)
    /\ kv[r].carrier.set
    /\ Len(spans) < MaxSpans
    /\ \E op \in Operations :
        LET tracerCtx == kv[r].carrier
            id == Len(spans) + 1
        IN /\ spans' = TracerStart(spans,
                          NewSpan(op, tracerCtx.RequestCtx, FALSE, NoAttrs, "StartSpan", op))
           /\ stack' = [stack EXCEPT ![r] = Push(@, Frame("StartSpan", id, op))]
    /\ nCalls' = [nCalls EXCEPT !.StartSpan = @ + 1]
    /\ UNCHANGED <<uuidCount, pc, inp, mw, kv, resp, out, enrichVars>>

\* work writes to the span it was handed (CreateUser: span.RecordError(err))
WorkRecordError(r) ==
    /\ InWork(r)
    /\ ~Top(r).wrote
    /\ \E err \in WorkErrs :
        spans' = [spans EXCEPT ![Top(r).span] = RecordError(@, err)]
    /\ stack' = [stack EXCEPT ![r][Len(stack[r])].wrote = TRUE]
    /\ UNCHANGED <<nCalls, uuidCount, pc, inp, mw, kv, resp, out, enrichVars>>

\* work classifies the span it was handed through the enrichment model
WorkEnrich(r) ==
    /\ InWork(r)
    /\ ~Top(r).wrote
    /\ \E now \in WorkTimes :
        \/ \E err \in WorkErrs :
              spans' = [spans EXCEPT ![Top(r).span] = TraceError(@, err, now)]
        \/ spans' = [spans EXCEPT ![Top(r).span] = TraceSuccess(@, now)]
    /\ stack' = [stack EXCEPT ![r][Len(stack[r])].wrote = TRUE]
    /\ UNCHANGED <<nCalls, uuidCount, pc, inp, mw, kv, resp, out, enrichVars>>

\* fn returns; the deferred span.End() runs; StartSpan returns
WorkReturn(r) ==
    /\ InWork(r)
    /\ \E workRet \in {NilErr} \cup WorkErrs :
        spans' = [spans EXCEPT ![Top(r).span] =
                    Finished(StartSpanEnd(@, workRet), workRet, StartSpanReturn(workRet))]
    /\ stack' = [stack EXCEPT ![r] = Pop(@)]
    /\ UNCHANGED <<nCalls, uuidCount, pc, inp, mw, kv, resp, out, enrichVars>>

----------------------------------------------------------------------------
(* Collection and the command monitor *)

CollOps == {"InsertOne", "FindOne", "Find", "UpdateOne", "DeleteOne"}

\* the operations a body calls: the handler itself lists with Find on the
\* request's context (ListUsers); work inside StartSpan calls any operation
\* (CreateUser: InsertOne) on the context it was handed
OpsCalledIn(kind) == IF kind = "handler" THEN {"Find"} ELSE CollOps

StoreErrs == {"errB"}

DatabaseName == "userdb"
CollectionName == "users"

\* evt.CommandName of the wire command an operation sends
CommandName(op) ==
    CASE op = "InsertOne" -> "insert"
      [] op = "FindOne" -> "find"
      [] op = "Find" -> "find"
      [] op = "UpdateOne" -> "update"
      [] op = "DeleteOne" -> "delete"

\* evt.Failure of a failed command
CommandFailure == "connection reset"

\* fmt.Errorf("mongodb command failed: %s", evt.Failure)
CommandError(failure) == "mongodb command failed: " \o failure

CollSpanName(op) == "MongoDB." \o op

CollStartAttributes(op) ==
    ("db.system" :> "mongodb") @@
    ("db.name" :> DatabaseName) @@
    ("db.collection" :> CollectionName) @@
    ("db.operation" :> op)

\* handleError setting the status without recording the error
handleError_NoRecord(span, err) ==
    IF err # NilErr
    THEN SetStatus(span, "Error", ErrorMsg(err))
    ELSE SetStatus(span, "Ok", "")

handleError(span, err) ==
    IF err # NilErr
    THEN RecordError(SetStatus(span, "Error", ErrorMsg(err)), err)
    ELSE SetStatus(span, "Ok", "")

\* a Collection operation without its deferred span.End()
CollEnd_Missing(span) == span

\* the deferred span.End() of a Collection operation
CollEnd(span) == End(span)

\* c.startSpan(ctx, op), then the store call is in flight.  ctx is the
\* request's context in the handler and work's context inside StartSpan.
CallCollection(r) ==
    /\ InAppCode(r)
    /\ ~Top(r).stored
    /\ Len(spans) < MaxSpans
    /\ \E op \in OpsCalledIn(Top(r).kind) :
        LET ctx == Top(r).span
            id == Len(spans) + 1
        IN /\ spans' = TracerStart(spans,
                          NewSpan(CollSpanName(op), ctx, FALSE,
                                  CollStartAttributes(op), "Collection", op))
           /\ stack' = [stack EXCEPT ![r] =
                          Push([@ EXCEPT ![Len(@)].stored = TRUE],
                               Frame("Collection", id, op))]
    /\ nCalls' = [nCalls EXCEPT !.Collection = @ + 1]
    /\ UNCHANGED <<uuidCount, pc, inp, mw, kv, resp, out, enrichVars>>

\* CommandMonitor.Started, on the span of the context of the store call
HookStarted(r) ==
    /\ InStoreCall(r)
    /\ Top(r).cmd = "idle"
    /\ spans' = [spans EXCEPT ![Top(r).span] =
                    SetAttributes(@,
                        ("db.operation" :> CommandName(Top(r).op)) @@
                        ("db.statement" :> "{...}") @@
                        ("db.connection_id" :> "conn-1"))]
    /\ stack' = [stack EXCEPT ![r][Len(stack[r])].cmd = "started"]
    /\ UNCHANGED <<nCalls, uuidCount, pc, inp, mw, kv, resp, out, enrichVars>>

\* CommandMonitor.Succeeded
HookSucceeded(r) ==
    /\ InStoreCall(r)
    /\ Top(r).cmd = "started"
    /\ spans' = [spans EXCEPT ![Top(r).span] =
                    SetAttributes(@, ("db.duration_ms" :> 3))]
    /\ stack' = [stack EXCEPT ![r][Len(stack[r])] =
                    [@ EXCEPT !.cmd = "idle", !.lastFailed = FALSE]]
    /\ UNCHANGED <<nCalls, uuidCount, pc, inp, mw, kv, resp, out, enrichVars>>

\* CommandMonitor.Failed
HookFailed(r) ==
    /\ InStoreCall(r)
    /\ Top(r).cmd = "started"
    /\ spans[Top(r).span].hookFails < MaxFailures
    /\ spans' = [spans EXCEPT ![Top(r).span] =
                    [RecordError(SetStatus(@, "Error", CommandFailure),
                                 CommandError(CommandFailure))
                        EXCEPT !.hookFails = @ + 1]]
    /\ stack' = [stack EXCEPT ![r][Len(stack[r])] =
                    [@ EXCEPT !.cmd = "idle", !.lastFailed = TRUE]]
    /\ UNCHANGED <<nCalls, uuidCount, pc, inp, mw, kv, resp, out, enrichVars>>

\* the store call returns (a call whose last command failed returns an
\* error); handleError, the deferred span.End(), return to the caller
StoreReturn(r) ==
    /\ InStoreCall(r)
    /\ Top(r).cmd = "idle"
    /\ \E err \in {NilErr} \cup StoreErrs :
        /\ Top(r).lastFailed => err # NilErr
        /\ spans' = [spans EXCEPT ![Top(r).span] =
                        Finished(CollEnd(handleError(@, err)), err, err)]
    /\ stack' = [stack EXCEPT ![r] = Pop(@)]
    /\ UNCHANGED <<nCalls, uuidCount, pc, inp, mw, kv, resp, out, enrichVars>>

----------------------------------------------------------------------------
(* The handler *)

HandlerErrs == {"errA"}

\* what the response holds when the handler returns: nothing written (status
\* still 0, or 200 as the server resets it) or a JSON body written with 201
HandlerResponses ==
    { [status |-> st, size |-> 0, ctype |-> ""] : st \in {0, 200} }
    \cup { [status |-> 201, size |-> 17, ctype |-> "application/json; charset=UTF-8"] }

\* next(c) returns
HandlerReturn(r) ==
    /\ pc[r] = "handler"
    /\ Top(r).kind = "handler"
    /\ \E ret \in {NilErr} \cup HandlerErrs, w \in HandlerResponses :
        /\ out' = [out EXCEPT ![r].handler = ret]
        /\ resp' = [resp EXCEPT ![r].status = w.status, ![r].size = w.size,
                                ![r].ctype = w.ctype]
    /\ stack' = [stack EXCEPT ![r] = Pop(@)]
    /\ pc' = [pc EXCEPT ![r] = "returned"]
    /\ UNCHANGED <<spans, nCalls, uuidCount, inp, mw, kv, enrichVars>>

\* a panic in the handler, in work or in the store call unwinds every call
\* in flight: each deferred span.End() runs, the middleware's last
Panic(r) ==
    /\ pc[r] = "handler"
    /\ LET inFlight == {stack[r][i].span :
                          i \in {j \in DOMAIN stack[r] : stack[r][j].kind # "handler"}}
       IN spans' = [i \in DOMAIN spans |->
                      IF i \in inFlight THEN Finished(End(spans[i]), "panic", "panic")
                      ELSE IF i = mw[r].span THEN End(spans[i])
                      ELSE spans[i]]
    /\ stack' = [stack EXCEPT ![r] = <<>>]
    /\ out' = [out EXCEPT ![r] = [handler |-> "panic", mw |-> "panic"]]
    /\ pc' = [pc EXCEPT ![r] = "done"]
    /\ UNCHANGED <<nCalls, uuidCount, inp, mw, kv, resp, enrichVars>>

----------------------------------------------------------------------------
(* OtelMiddleware *)

\* the fallback name without the "route not found" marker
RouteOf_NoMarker(path, method) ==
    IF path = "" THEN "HTTP " \o method ELSE path

\* route := c.Path(), or the fallback name
RouteOf(path, method) ==
    IF path = "" THEN "HTTP " \o method \o " route not found" ELSE path

SpanNameOf(route, method) ==
    IF route = "" THEN "HTTP " \o method ELSE route

StartAttributes(rq, route, requestID) ==
    ("http.method" :> rq.method) @@
    ("http.target" :> rq.urlPath) @@
    ("http.route" :> route) @@
    ("http.host" :> "localhost:8081") @@
    ("http.scheme" :> "") @@
    ("http.flavor" :> "HTTP/1.1") @@
    ("http.client_ip" :> "127.0.0.1") @@
    ("http.user_agent" :> "curl/8") @@
    ("http.request_content_length" :> 0) @@
    ("http.request_id" :> requestID)

\* the middleware ending its span a second time
MwDeferredEnd_Twice(span) == End(End(span))

\* the deferred span.End() of the middleware
MwDeferredEnd(span) == End(span)

\* the middleware swallowing the handler's error
MwReturn_Swallow(err) == NilErr

\* the value the middleware hands back to the framework
MwReturn(err) == IF err # NilErr THEN err ELSE NilErr

\* lines 52-111: everything up to the call of next(c)
MwEnter(r) ==
    /\ pc[r] = "idle"
    /\ Len(spans) < MaxSpans
    /\ \E rq \in InboundRequests, now \in StartTimes :
        LET route == RouteOf(rq.path, rq.method)
            generated == rq.reqID = ""
            requestID == IF generated THEN UUID(uuidCount + 1) ELSE rq.reqID
            traceData == [NewTraceData(now) EXCEPT
                            !.RequestID = requestID, !.Action = rq.method,
                            !.Resource = route, !.Environment = ConfigEnvironment]
            spanName == SpanNameOf(route, rq.method)
            id == Len(spans) + 1
            span == AddTraceAttributes(
                        NewSpan(spanName, 0, Extract(rq.traceparent),
                                StartAttributes(rq, route, requestID), "request", rq.method),
                        traceData)
        IN /\ inp' = [inp EXCEPT ![r] = rq]
           /\ uuidCount' = IF generated THEN uuidCount + 1 ELSE uuidCount
           /\ resp' = [resp EXCEPT ![r].reqID = IF generated THEN requestID ELSE @]
           /\ mw' = [mw EXCEPT ![r] = [route |-> route, requestID |-> requestID,
                                        spanName |-> spanName,
                                        traceData |-> traceData, span |-> id]]
           /\ spans' = TracerStart(spans, span)
           /\ kv' = [kv EXCEPT ![r] =
                        [reqCtx |-> id,
                         carrier |-> NewCarrier(ConfigServiceName, id)]]
    /\ nCalls' = [nCalls EXCEPT !.request = @ + 1]
    /\ stack' = [stack EXCEPT ![r] = <<Frame("handler", Len(spans) + 1, "")>>]
    /\ pc' = [pc EXCEPT ![r] = "handler"]
    /\ UNCHANGED <<out, enrichVars>>

\* lines 113-132 and the deferred span.End(): next(c) has returned
MwFinalize(r) ==
    /\ pc[r] = "returned"
    /\ LET err == out[r].handler
           id == mw[r].span
           data == IF err # NilErr
                   THEN [mw[r].traceData EXCEPT !.Error = err,
                                                !.StatusCode = resp[r].status]
                   ELSE [mw[r].traceData EXCEPT !.StatusCode = resp[r].status]
           s1 == AddTraceAttributes(spans[id], data)
           s2 == IF err # NilErr
                 THEN RecordError(s1, err)
                 ELSE SetAttributes(s1,
                        ("http.response_content_length" :> resp[r].size) @@
                        ("http.response_content_type" :> resp[r].ctype))
       IN /\ mw' = [mw EXCEPT ![r].traceData = data]
          /\ spans' = [spans EXCEPT ![id] = MwDeferredEnd(s2)]
          /\ out' = [out EXCEPT ![r].mw = MwReturn(err)]
    /\ pc' = [pc EXCEPT ![r] = "done"]
    /\ UNCHANGED <<nCalls, uuidCount, inp, kv, resp, stack, enrichVars>>

----------------------------------------------------------------------------
(* The request pipeline *)

Next ==
    \E r \in Followed :
        \/ MwEnter(r)
        \/ CallStartSpan(r)
        \/ WorkRecordError(r)
        \/ WorkEnrich(r)
        \/ WorkReturn(r)
        \/ CallCollection(r)
        \/ HookStarted(r)
        \/ HookSucceeded(r)
        \/ HookFailed(r)
        \/ StoreReturn(r)
        \/ HandlerReturn(r)
        \/ MwFinalize(r)
        \/ Panic(r)

----------------------------------------------------------------------------
(* Enrichment of one span by a sequence of calls *)

EnrichRecords ==
    { [EmptyTraceData EXCEPT !.UserID = u, !.StatusCode = c, !.Error = e,
                             !.StartTime = st, !.EndTime = en] :
        u \in {"", "u1"}, c \in {0, 200, 201, 500},
        e \in {NilErr} \cup ErrValues,
        st \in {ZeroTime, 1}, en \in {ZeroTime, 2} }

InitPipe ==
    /\ spans = <<>>
    /\ nCalls = [request |-> 0, StartSpan |-> 0, Collection |-> 0]
    /\ uuidCount = 0
    /\ pc = [r \in Requests |-> "idle"]
    /\ inp = [r \in Requests |-> NoInput]
    /\ mw = [r \in Requests |-> NoLocals]
    /\ kv = [r \in Requests |-> NoEcho]
    /\ resp = [r \in Requests |-> NoResponse]
    /\ stack = [r \in Requests |-> <<>>]
    /\ out = [r \in Requests |-> [handler |-> "pending", mw |-> "pending"]]

InitEnrich ==
    /\ eSpan = NewSpan("op", 0, FALSE, NoAttrs, "enrich", "op")
    /\ ePre = NewSpan("op", 0, FALSE, NoAttrs, "enrich", "op")
    /\ eData = EmptyTraceData
    /\ eOp = "none"
    /\ eErr = NilErr
    /\ eCalls = 0

Init == InitPipe /\ InitEnrich

EnrichAdd ==
    /\ eCalls < MaxEnrichCalls
    /\ \E data \in EnrichRecords :
        /\ eSpan' = AddTraceAttributes(eSpan, data)
        /\ eData' = data
    /\ ePre' = eSpan
    /\ eOp' = "AddTraceAttributes"
    /\ eErr' = NilErr
    /\ eCalls' = eCalls + 1
    /\ UNCHANGED pipeVars

EnrichTraceError ==
    /\ eCalls < MaxEnrichCalls
    /\ \E err \in ErrValues, now \in Times :
        /\ eSpan' = TraceError(eSpan, err, now)
        /\ eData' = [EmptyTraceData EXCEPT !.StatusCode = 400, !.Error = err, !.EndTime = now]
        /\ eErr' = err
    /\ ePre' = eSpan
    /\ eOp' = "TraceError"
    /\ eCalls' = eCalls + 1
    /\ UNCHANGED pipeVars

EnrichTraceSuccess ==
    /\ eCalls < MaxEnrichCalls
    /\ \E now \in Times :
        /\ eSpan' = TraceSuccess(eSpan, now)
        /\ eData' = [EmptyTraceData EXCEPT !.StatusCode = 200, !.EndTime = now]
    /\ ePre' = eSpan
    /\ eOp' = "TraceSuccess"
    /\ eErr' = NilErr
    /\ eCalls' = eCalls + 1
    /\ UNCHANGED pipeVars

NextEnrich == EnrichAdd \/ EnrichTraceError \/ EnrichTraceSuccess

\* requests handled concurrently: the steps of the middleware passes and of
\* handlers that call StartSpan interleave freely
NextConc ==
    \E r \in Requests :
        \/ MwEnter(r)
        \/ CallStartSpan(r)
        \/ WorkReturn(r)
        \/ HandlerReturn(r)
        \/ MwFinalize(r)
        \/ Panic(r)

Spec == Init /\ [][Next]_vars

SpecConc == Init /\ [][NextConc]_vars

SpecEnrich == Init /\ [][NextEnrich]_vars

----------------------------------------------------------------------------
(* Claims about AddTraceAttributes, checked under SpecEnrich *)

AddedOnUnset == eOp = "AddTraceAttributes" /\ ePre.status.code = "Unset"

ErrorStatusOf(data) ==
    [code |-> "Error",
     description |-> IF data.Error # NilErr THEN ErrorMsg(data.Error)
                     ELSE "Unknown error"]

C6_ZeroCodeKeepsStatus ==
    (eOp = "AddTraceAttributes" /\ eData.StatusCode = 0) =>
        eSpan.status = ePre.status

C6_Witness ==
    /\ eOp = "AddTraceAttributes"
    /\ eData.StatusCode = 0
    /\ eData.Error # NilErr
    /\ ePre.status.code = "Unset"
    /\ eSpan.status = NoStatus
    /\ "error.message" \in DOMAIN eSpan.attrs

\* the attribute keys whose field in the record is non-empty / non-zero
NonEmptyKeys(data) ==
    {k \in {"user.id"} : data.UserID # ""} \cup
    {k \in {"request.id"} : data.RequestID # ""} \cup
    {k \in {"service.name"} : data.ServiceName # ""} \cup
    {k \in {"environment"} : data.Environment # ""} \cup
    {k \in {"version"} : data.Version # ""} \cup
    {k \in {"region"} : data.Region # ""} \cup
    {k \in {"action"} : data.Action # ""} \cup
    {k \in {"resource"} : data.Resource # ""} \cup
    {k \in {"status.code"} : data.StatusCode # 0} \cup
    {k \in {"client.ip"} : data.ClientIP # ""} \cup
    {k \in {"user.agent"} : data.UserAgent # ""} \cup
    {k \in {"request.size"} : data.RequestSize # 0} \cup
    {k \in {"response.size"} : data.ResponseSize # 0} \cup
    {k \in {"duration.ms"} : data.Duration # 0} \cup
    {k \in {"start_time"} : data.StartTime # ZeroTime} \cup
    {k \in {"end_time"} : data.EndTime # ZeroTime} \cup
    {k \in {"error.message"} : data.Error # NilErr}

\* C7 as stated: the attribute keys a call of AddTraceAttributes writes are
\* exactly the keys whose fields in the record are non-empty / non-zero
\* (seen on a span that had no attributes before the call).
C7_Claim ==
    (eOp = "AddTraceAttributes" /\ ePre.attrs = NoAttrs) =>
        DOMAIN eSpan.attrs = NonEmptyKeys(eData)

\* C12 as stated: whatever AddTraceAttributes calls were made on the span
\* before, after TraceError(span, err) the span status is Error with message
\* err.Error(), err is recorded and status.code is 400; after
\* TraceSuccess(span) the status is Ok with message "Success" and status.code
\* is 200.
C12_Claim ==
    /\ eOp = "TraceError" =>
          /\ eSpan.status = [code |-> "Error", description |-> ErrorMsg(eErr)]
          /\ \E k \in DOMAIN eSpan.events : eSpan.events[k] = eErr
          /\ eSpan.attrs["status.code"] = 400
    /\ eOp = "TraceSuccess" =>
          /\ eSpan.status = [code |-> "Ok", description |-> "Success"]
          /\ eSpan.attrs["status.code"] = 200

\* the attribute keys holding integers
IntKeys == {"status.code", "request.size", "response.size", "duration.ms"}

\* an attribute value that is neither the empty string nor zero
NonEmptyValue(k, v) == IF k \in IntKeys THEN v # 0 ELSE v # ""

\* C18 as stated: a second enrichment call (AddTraceAttributes, TraceError or
\* TraceSuccess) keeps every attribute key present after the first, and every
\* attribute that had a non-empty / non-zero value and whose field the second
\* record leaves empty / zero keeps that value.
C18_Claim ==
    eCalls >= 2 =>
        /\ DOMAIN ePre.attrs \subseteq DOMAIN eSpan.attrs
        /\ \A k \in DOMAIN ePre.attrs :
              (NonEmptyValue(k, ePre.attrs[k]) /\ k \notin NonEmptyKeys(eData)) =>
                  eSpan.attrs[k] = ePre.attrs[k]

----------------------------------------------------------------------------
(* Claims about the request pipeline, checked under Spec *)

SpanIds(kind) == {i \in DOMAIN spans : spans[i].kind = kind}

\* the spans of the invocations still in flight
InFlight ==
    UNION { {stack[r][i].span : i \in DOMAIN stack[r]} : r \in Requests }

Returned(s) == s.ret \notin {"pending", "panic"}

\* C1: every invocation of StartSpan starts exactly one span; the span is
\* open while work runs and has been ended exactly once when StartSpan has
\* exited, whether work returned nil, returned an error or panicked; and the
\* value StartSpan returns is the value work returned.
C1_StartSpan ==
    /\ Cardinality(SpanIds("StartSpan")) = nCalls.StartSpan
    /\ \A i \in SpanIds("StartSpan") :
        /\ i \in InFlight <=> spans[i].ret = "pending"
        /\ i \in InFlight => spans[i].ended = 0
        /\ i \notin InFlight => spans[i].ended = 1
        /\ Returned(spans[i]) => spans[i].ret = spans[i].inner

C1_Witness ==
    \E i, j \in SpanIds("StartSpan") :
        /\ spans[i].inner = "errA" /\ spans[i].ret = "errA" /\ spans[i].ended = 1
        /\ spans[j].ret = "panic" /\ spans[j].ended = 1

RequestsPast(pcs) == {r \in Requests : pc[r] \in pcs}

\* C2 as stated: the response of every handled request carries an
\* X-Request-ID header equal to the request id the middleware used for the
\* span (http.request_id, record field RequestID), supplied or generated.
C2_Claim ==
    \A r \in RequestsPast({"done"}) :
      out[r].mw # "panic" =>
        /\ mw[r].requestID # ""
        /\ spans[mw[r].span].attrs["http.request_id"] = mw[r].requestID
        /\ mw[r].traceData.RequestID = mw[r].requestID
        /\ resp[r].reqID = mw[r].requestID

\* C3: whatever the inbound trace headers and the response status, the value
\* the middleware returns to the framework is the value the handler returned.
C3_PassThrough ==
    \A r \in RequestsPast({"done"}) :
        out[r].handler # "panic" => out[r].mw = out[r].handler

C3_Witness ==
    \E r \in RequestsPast({"done"}) :
        /\ inp[r].traceparent = "garbage"
        /\ resp[r].status = 200
        /\ out[r].handler = "errA"
        /\ out[r].mw = "errA"

\* C4 as stated: when the handler returned a non-nil error, whatever the
\* response status, the closed request span has the error recorded (a
\* RecordError event and error.message) and its status is Error.
C4_Claim ==
    \A r \in RequestsPast({"done"}) :
        out[r].handler \in HandlerErrs =>
            LET s == spans[mw[r].span]
            IN /\ s.ended = 1
               /\ \E k \in DOMAIN s.events : s.events[k] = out[r].handler
               /\ "error.message" \in DOMAIN s.attrs
               /\ s.attrs["error.message"] = ErrorMsg(out[r].handler)
               /\ s.status.code = "Error"

\* C8: every call of a Collection operation starts exactly one span, named
\* "MongoDB.<Operation>" and carrying db.system, db.name, db.collection and
\* db.operation from its start; the span is open during the store call and
\* has been ended exactly once when the operation has exited, whether the
\* store call succeeded, failed or panicked.
C8_CollectionSpan ==
    /\ Cardinality(SpanIds("Collection")) = nCalls.Collection
    /\ \A i \in SpanIds("Collection") :
        LET s == spans[i]
        IN /\ s.op \in CollOps
           /\ s.name = "MongoDB." \o s.op
           /\ s.attrs["db.system"] = "mongodb"
           /\ s.attrs["db.name"] = DatabaseName
           /\ s.attrs["db.collection"] = CollectionName
           /\ "db.operation" \in DOMAIN s.attrs
           /\ "db.statement" \notin DOMAIN s.attrs => s.attrs["db.operation"] = s.op
           /\ i \in InFlight <=> s.ret = "pending"
           /\ i \in InFlight => s.ended = 0
           /\ i \notin InFlight => s.ended = 1

C8_Witness ==
    \E i \in SpanIds("Collection") :
        /\ spans[i].name = "MongoDB.InsertOne"
        /\ spans[i].parent \in SpanIds("StartSpan")
        /\ "db.statement" \in DOMAIN spans[i].attrs
        /\ spans[i].ret = "errB"
        /\ spans[i].ended = 1

\* C9 as stated: when a Collection operation has returned, an error of the
\* store call gives status Error and that error recorded; no error gives
\* status Ok and no recorded error, whichever hooks fired; and the error
\* returned to the caller is the store call's.
C9_Claim ==
    \A i \in SpanIds("Collection") :
        LET s == spans[i]
        IN Returned(s) =>
            /\ s.ret = s.inner
            /\ s.inner # NilErr =>
                /\ s.status.code = "Error"
                /\ \E k \in DOMAIN s.events : s.events[k] = s.inner
            /\ s.inner = NilErr =>
                /\ s.status.code = "Ok"
                /\ s.events = <<>>

\* C9 amended: when a Collection operation has returned, an error of the
\* store call gives status Error with that error's message and that error
\* recorded last; no error gives status Ok and no error recorded by the
\* wrapper.  The only other recorded errors are those of the Failed hooks
\* that fired during the store call, one per hook (none when none fired).
\* The error returned to the caller is the store call's.
C9_Outcome ==
    \A i \in SpanIds("Collection") :
        LET s == spans[i]
            hookErrs == [k \in 1..s.hookFails |-> "mongodb command failed: connection reset"]
        IN Returned(s) =>
            /\ s.ret = s.inner
            /\ s.inner # NilErr =>
                /\ s.status = [code |-> "Error", description |-> ErrorMsg(s.inner)]
                /\ s.events = hookErrs \o <<s.inner>>
            /\ s.inner = NilErr =>
                /\ s.status = [code |-> "Ok", description |-> ""]
                /\ s.events = hookErrs

C9_Witness ==
    \E i \in SpanIds("Collection") :
        /\ spans[i].inner = NilErr
        /\ spans[i].ret = NilErr
        /\ spans[i].hookFails = 1
        /\ spans[i].status.code = "Ok"
        /\ Len(spans[i].events) = 1

\* C10: the request span's name is the matched route pattern when the router
\* resolved one, otherwise "HTTP <METHOD> route not found", never the raw
\* unmatched URL path; the http.route start attribute and the record's
\* Resource field carry the same name.
C10_SpanName ==
    \A r \in RequestsPast({"handler", "returned", "done"}) :
        LET s == spans[mw[r].span]
        IN /\ inp[r].path # "" => s.name = inp[r].path
           /\ inp[r].path = "" =>
                /\ s.name = "HTTP " \o inp[r].method \o " route not found"
                /\ s.name # inp[r].urlPath
           /\ s.attrs["http.route"] = s.name
           /\ mw[r].traceData.Resource = s.name
           /\ s.attrs["resource"] = s.name

C10_Witness ==
    \E r \in RequestsPast({"done"}) :
        /\ inp[r].path = ""
        /\ inp[r].urlPath = "/nope"
        /\ spans[mw[r].span].name = "HTTP GET route not found"

\* C11 as stated: when a request has completed, with the handler returning
\* nil or an error, the record holds the final response status code, the
\* record has been re-applied to the span (status.code), and the span carries
\* http.response_content_length and http.response_content_type, all written
\* before the span was closed.
C11_Claim ==
    \A r \in RequestsPast({"done"}) :
        out[r].handler \in {NilErr} \cup HandlerErrs =>
            LET s == spans[mw[r].span]
            IN /\ mw[r].traceData.StatusCode = resp[r].status
               /\ s.attrs["status.code"] = resp[r].status
               /\ "http.response_content_length" \in DOMAIN s.attrs
               /\ "http.response_content_type" \in DOMAIN s.attrs
               /\ s.attrs["http.response_content_length"] = resp[r].size
               /\ s.attrs["http.response_content_type"] = resp[r].ctype
               /\ s.ended = 1
               /\ s.late = 0

\* C15 as stated: the command-monitor hooks write only to the operation span
\* of the Collection call in flight (no other span carries the attributes
\* they set), they end no span (the operation span is open for the whole
\* store call), and they leave the attributes the wrapper set at start
\* unchanged: db.operation is the wrapper's operation name.
C15_Claim ==
    /\ \A i \in DOMAIN spans \ SpanIds("Collection") :
          /\ "db.statement" \notin DOMAIN spans[i].attrs
          /\ "db.duration_ms" \notin DOMAIN spans[i].attrs
          /\ spans[i].hookFails = 0
    /\ \A i \in SpanIds("Collection") :
          /\ i \in InFlight => spans[i].ended = 0
          /\ spans[i].attrs["db.system"] = "mongodb"
          /\ spans[i].attrs["db.name"] = DatabaseName
          /\ spans[i].attrs["db.collection"] = CollectionName
          /\ spans[i].attrs["db.operation"] = spans[i].op

\* C19: when the handler returned nil, the closed request span has
\* status.code equal to the response status code read after the handler, and
\* its status is Ok exactly when that code is 200, Error with message
\* "Unknown error" for every other non-zero code, and unset when it is 0.
C19_SuccessStatus ==
    \A r \in RequestsPast({"done"}) :
        out[r].handler = NilErr =>
            LET s == spans[mw[r].span]
                code == resp[r].status
            IN /\ s.attrs["status.code"] = code
               /\ s.status.code = "Ok" <=> code = 200
               /\ code \notin {0, 200} =>
                     s.status = [code |-> "Error", description |-> "Unknown error"]
               /\ code = 0 => s.status = NoStatus

C19_Witness ==
    \E r \in RequestsPast({"done"}) :
        /\ out[r].handler = NilErr
        /\ resp[r].status = 201
        /\ spans[mw[r].span].attrs["status.code"] = 201
        /\ spans[mw[r].span].status = [code |-> "Error", description |-> "Unknown error"]
        /\ spans[mw[r].span].ended = 1

\* the part of a span that SetStatus, RecordError and SetAttributes write
Written(s) == <<s.status, s.events, s.attrs, s.late>>

C14_RequestSpan ==
    /\ Cardinality(SpanIds("request")) = nCalls.request
    /\ Cardinality(SpanIds("request")) = Cardinality(RequestsPast({"handler", "returned", "done"}))
    /\ \A r \in RequestsPast({"idle"}) : mw[r].span = 0
    /\ \A r \in RequestsPast({"handler", "returned", "done"}) :
          /\ mw[r].span \in SpanIds("request")
          /\ \A q \in Requests \ {r} : mw[q].span # mw[r].span
          /\ pc[r] \in {"handler", "returned"} => spans[mw[r].span].ended = 0
          /\ pc[r] = "done" => spans[mw[r].span].ended = 1
          /\ spans[mw[r].span].late = 0

C14_Witness ==
    \E r \in RequestsPast({"done"}) :
        /\ out[r].mw = "panic"
        /\ Len(spans) >= 2
        /\ spans[mw[r].span].ended = 1
        /\ spans[mw[r].span].late = 0
        /\ "start_time" \in DOMAIN spans[mw[r].span].attrs

\* C16: from the moment the handler is invoked the carrier under
\* TraceContextKey holds the context of the request span, which is also the
\* context of the request, and no later step changes it; the request span is
\* the root of the request's spans; every span started by StartSpan has the
\* span of the carrier's context as parent, so StartSpan calls made with the
\* same carrier give siblings; and a Collection operation has as parent the
\* span of the context it was called with: work's span inside StartSpan, the
\* request span in the handler.
C16_SpanTree ==
    /\ \A r \in RequestsPast({"handler", "returned", "done"}) :
          /\ mw[r].span \in SpanIds("request")
          /\ spans[mw[r].span].parent = 0
          /\ kv[r].carrier =
                [set |-> TRUE, Tracer |-> ConfigServiceName, RequestCtx |-> mw[r].span]
          /\ kv[r].reqCtx = mw[r].span
          /\ \A k \in DOMAIN stack[r] \ {1} :
                LET f == stack[r][k]
                IN /\ f.kind = "StartSpan" => spans[f.span].parent = mw[r].span
                   /\ f.kind = "Collection" => spans[f.span].parent = stack[r][k - 1].span
    /\ \A i \in DOMAIN spans :
          /\ spans[i].kind = "StartSpan" =>
                /\ spans[i].parent \in 1..(i - 1)
                /\ spans[spans[i].parent].kind = "request"
          /\ spans[i].kind = "Collection" =>
                /\ spans[i].parent \in 1..(i - 1)
                /\ spans[spans[i].parent].kind \in {"request", "StartSpan"}

C16_Witness ==
    \E r \in RequestsPast({"handler"}) :
        \E i, j \in SpanIds("StartSpan") :
            /\ i < j
            /\ spans[i].ret = NilErr /\ spans[i].ended = 1
            /\ Len(stack[r]) = 2 /\ Top(r).span = j
            /\ spans[i].parent = mw[r].span
            /\ spans[j].parent = mw[r].span

\* a request's id: the X-Request-ID it supplied, or the generated one
Generated(r) == inp[r].reqID = ""

\* what belongs to request r: its locals, its key-value store, its response,
\* its outcome and its span
Owned(r) ==
    <<inp[r], mw[r], kv[r], resp[r], out[r],
      IF mw[r].span = 0 THEN 0 ELSE spans[mw[r].span]>>

\* C17: under every interleaving of two requests through the one middleware
\* instance, the carrier in a request's key-value store holds the context of
\* that request's span and of no other request's; request.id and
\* http.request_id on its span are its own id (supplied, or generated and
\* then different from the other request's); and a step that is not a step
\* of request i changes nothing of request i: its record and other locals,
\* its carrier, its response headers, its span.
C17_Isolation ==
    /\ [](\A r \in RequestsPast({"handler", "returned", "done"}) :
            /\ kv[r].carrier.set
            /\ kv[r].carrier.RequestCtx = mw[r].span
            /\ spans[mw[r].span].attrs["request.id"] = mw[r].requestID
            /\ spans[mw[r].span].attrs["http.request_id"] = mw[r].requestID
            /\ mw[r].traceData.RequestID = mw[r].requestID
            /\ ~Generated(r) => mw[r].requestID = inp[r].reqID
            /\ \A q \in RequestsPast({"handler", "returned", "done"}) \ {r} :
                  /\ kv[q].carrier.RequestCtx # mw[r].span
                  /\ Generated(r) => mw[q].requestID # mw[r].requestID)
    /\ [][\A r \in Requests :
            (pc'[r] = pc[r] /\ stack'[r] = stack[r]) => Owned(r)' = Owned(r)]_vars

C17_Witness ==
    /\ pc["r1"] = "returned"
    /\ pc["r2"] = "handler"
    /\ mw["r2"].span < mw["r1"].span
    /\ Generated("r1") /\ Generated("r2")
    /\ Len(stack["r2"]) = 2

====
